---- MODULE Spec2Model ----
(***************************************************************************)
(* Squeeze2Diretta: the DirettaOutputSimple sink adapter, the wrapper's    *)
(* main() pump with its signal handler and child process, and the          *)
(* in-process output thread of output_diretta.c.                           *)
(*                                                                         *)
(* The sink object is a record whose fields are the members of             *)
(* DirettaOutputSimple; its methods are operators from a sink record (and  *)
(* the inputs of the call) to the sink record after the call and the       *)
(* value returned.  The DIRETTA::SyncBuffer behind m_syncBuffer is the     *)
(* vendor SDK: only what the adapter asks of it is kept (opened,           *)
(* is_connect, playing, the configured format, the streams submitted).     *)
(***************************************************************************)
EXTENDS Integers, Sequences, FiniteSets, TLC

(***************************************************************************)
(* Bounds of the model.                                                    *)
(***************************************************************************)
MaxTargets == 1        \* targets a discovery can report: 0..MaxTargets
MaxSamples == 2        \* cap of m_totalSamplesSent in the sink specification
MaxStreams == 1        \* cap of setStream submissions per SDK open in the sink specification
CHUNK_SIZE == 2        \* frames per read of the pump (8192 in globals.cpp, scaled down)
MaxStreamBytes == 9    \* bytes the child writes to the pipe
MaxSignals == 1        \* SIGINT/SIGTERM deliveries to the bridge
BufFrames == 3         \* size of squeezelite's output ring buffer, in frames
MaxFrames == 1         \* frames the decoder writes to the output buffer
MaxFlushes == 1        \* output_flush_diretta calls

(***************************************************************************)
(* AudioFormat (DirettaOutputSimple.h) and the formats used as inputs.     *)
(***************************************************************************)
AudioFormat(sampleRate, bitDepth, channels, isDSD) ==
    [sampleRate |-> sampleRate, bitDepth |-> bitDepth,
     channels |-> channels, isDSD |-> isDSD]

Formats ==
    { AudioFormat(44100, 16, 2, FALSE),
      AudioFormat(96000, 24, 2, FALSE),
      AudioFormat(2822400, 32, 2, TRUE),
      AudioFormat(12345, 24, 2, FALSE) }

(***************************************************************************)
(* DIRETTA::FormatID is a bit mask of the SDK; a mask is the set of the    *)
(* flags or-ed into it.                                                    *)
(***************************************************************************)
FMT_INVALID == {"FMT_INVALID"}

DsdRateFlag(sampleRate) ==
    CASE sampleRate = 2822400  -> {"FMT_DSD_R64"}
      [] sampleRate = 5644800  -> {"FMT_DSD_R128"}
      [] sampleRate = 11289600 -> {"FMT_DSD_R256"}
      [] sampleRate = 22579200 -> {"FMT_DSD_R512"}
      [] sampleRate = 45158400 -> {"FMT_DSD_R1024"}
      [] OTHER -> {}

PcmDepthFlag(bitDepth) ==
    CASE bitDepth = 16 -> {"FMT_PCM_SIGNED_16"}
      [] bitDepth = 24 -> {"FMT_PCM_SIGNED_24"}
      [] bitDepth = 32 -> {"FMT_PCM_SIGNED_32"}
      [] OTHER -> {}

\* the switch of lines 348-362 with the flag of 44100 pasted into the 48000 case
PcmRateFlag_pasted(sampleRate) ==
    CASE sampleRate = 44100  -> {"FMT_PCM_R44100"}
      [] sampleRate = 48000  -> {"FMT_PCM_R44100"}
      [] sampleRate = 88200  -> {"FMT_PCM_R88200"}
      [] sampleRate = 96000  -> {"FMT_PCM_R96000"}
      [] sampleRate = 176400 -> {"FMT_PCM_R176400"}
      [] sampleRate = 192000 -> {"FMT_PCM_R192000"}
      [] sampleRate = 352800 -> {"FMT_PCM_R352800"}
      [] sampleRate = 384000 -> {"FMT_PCM_R384000"}
      [] sampleRate = 705600 -> {"FMT_PCM_R705600"}
      [] sampleRate = 768000 -> {"FMT_PCM_R768000"}
      [] OTHER -> {}

PcmRateFlag(sampleRate) ==
    CASE sampleRate = 44100  -> {"FMT_PCM_R44100"}
      [] sampleRate = 48000  -> {"FMT_PCM_R48000"}
      [] sampleRate = 88200  -> {"FMT_PCM_R88200"}
      [] sampleRate = 96000  -> {"FMT_PCM_R96000"}
      [] sampleRate = 176400 -> {"FMT_PCM_R176400"}
      [] sampleRate = 192000 -> {"FMT_PCM_R192000"}
      [] sampleRate = 352800 -> {"FMT_PCM_R352800"}
      [] sampleRate = 384000 -> {"FMT_PCM_R384000"}
      [] sampleRate = 705600 -> {"FMT_PCM_R705600"}
      [] sampleRate = 768000 -> {"FMT_PCM_R768000"}
      [] OTHER -> {}

buildFormatID(format) ==
    IF format.isDSD
    THEN IF DsdRateFlag(format.sampleRate) = {}
         THEN FMT_INVALID
         ELSE {"FMT_DSD_SIZ_32"} \cup DsdRateFlag(format.sampleRate) \cup {"FMT_CH_2_0"}
    ELSE IF PcmDepthFlag(format.bitDepth) = {}
         THEN FMT_INVALID
         ELSE IF PcmRateFlag(format.sampleRate) = {}
              THEN FMT_INVALID
              ELSE PcmDepthFlag(format.bitDepth) \cup PcmRateFlag(format.sampleRate)
                       \cup {"FMT_CH_2_0"}

(***************************************************************************)
(* The sink object after construction.                                     *)
(***************************************************************************)
\* calls: the commands the object has given the SDK buffer since its method
\* most recently called was entered
SyncBuffer ==
    [opened |-> FALSE, is_connect |-> FALSE, playing |-> FALSE,
     sinkAddr |-> "", sinkConfigure |-> {}, transfer |-> "none",
     totalFrames |-> 0, nStreams |-> 0, stream |-> <<>>, calls |-> <<>>]

DirettaOutputSimple ==
    [m_syncBuffer |-> SyncBuffer,
     m_selectedTargetIndex |-> -1,
     m_targetAddress |-> "",
     m_currentFormat |-> AudioFormat(0, 0, 0, FALSE),
     m_bufferSeconds |-> 2,
     m_playing |-> FALSE,
     m_isPaused |-> FALSE,
     m_totalSamplesSent |-> 0]

Result(s, ret) == [sink |-> s, ret |-> ret]

\* a method of the object is entered
Enter(s) == [s EXCEPT !.m_syncBuffer.calls = <<>>]

(***************************************************************************)
(* selectTarget(index); count is what the discovery find() reports.        *)
(***************************************************************************)
getSinkAddr(index) == <<"192.168.1.10", "192.168.1.11", "192.168.1.12">>[index + 1]

\* selectTarget storing the index before it is checked against count
selectTarget_storesFirst(s, index, count) ==
    IF count = 0 THEN Result(s, FALSE)
    ELSE IF index < 0 \/ index >= count
         THEN Result([s EXCEPT !.m_selectedTargetIndex = index], FALSE)
    ELSE Result([s EXCEPT !.m_selectedTargetIndex = index,
                          !.m_targetAddress = getSinkAddr(index)], TRUE)

selectTarget(s, index, count) ==
    IF count = 0 THEN Result(s, FALSE)
    ELSE IF index < 0 \/ index >= count THEN Result(s, FALSE)
    ELSE Result([s EXCEPT !.m_selectedTargetIndex = index,
                          !.m_targetAddress = getSinkAddr(index)], TRUE)

(***************************************************************************)
(* open(format, bufferSeconds).  t is the time in ms after connect() at    *)
(* which the target reports connected, Never if it does not.               *)
(***************************************************************************)
Never == -1
timeoutMs == 10000
ConnectTimes == {0, 300, 10000, 10050, Never}

is_connect(t, elapsedMs) == t # Never /\ t <= elapsedMs

RECURSIVE WaitForConnection(_, _)
WaitForConnection(t, waitedMs) ==
    IF ~is_connect(t, waitedMs) /\ waitedMs < timeoutMs
    THEN WaitForConnection(t, waitedMs + 100)
    ELSE waitedMs

isLowBitrate(format) ==
    format.bitDepth <= 16 /\ format.sampleRate <= 48000 /\ ~format.isDSD

\* lines 132-191: record the format, open the SDK buffer, configure, connect().
\* accepted is the identifier getSinkConfigure() returns after setSinkConfigure:
\* the target may have changed the one requested; lines 161-165 only print.
open_setup(s, format, bufferSeconds, accepted) ==
    [s EXCEPT !.m_currentFormat = format,
              !.m_bufferSeconds = bufferSeconds,
              !.m_syncBuffer = [@ EXCEPT !.opened = TRUE,
                                         !.nStreams = 0,
                                         !.stream = <<>>,
                                         !.sinkAddr = s.m_targetAddress,
                                         !.sinkConfigure = accepted,
                                         !.transfer = IF isLowBitrate(format)
                                                      THEN "auto" ELSE "varmax",
                                         !.totalFrames = format.sampleRate * bufferSeconds,
                                         !.calls = @ \o <<"open", "setSink", "setSinkConfigure",
                                                          IF isLowBitrate(format)
                                                          THEN "configTransferAuto"
                                                          ELSE "configTransferVarMax",
                                                          "setupBuffer", "connect">>]]

\* the value of waitedMs when the loop of lines 197-200 ends
waited == [t \in ConnectTimes |-> WaitForConnection(t, 0)]

\* open() without the test of lines 202-205 after the wait
open_wait_unchecked(s, t) ==
    Result([s EXCEPT !.m_syncBuffer.is_connect = is_connect(t, waited[t]),
                     !.m_syncBuffer.playing = TRUE,
                     !.m_syncBuffer.calls = Append(@, "play"),
                     !.m_playing = TRUE,
                     !.m_isPaused = FALSE,
                     !.m_totalSamplesSent = 0], TRUE)

\* lines 193-216: the bounded wait, then play() on success
open_wait(s, t) ==
    IF ~is_connect(t, waited[t])
    THEN Result([s EXCEPT !.m_syncBuffer.is_connect = FALSE], FALSE)
    ELSE Result([s EXCEPT !.m_syncBuffer.is_connect = TRUE,
                          !.m_syncBuffer.playing = TRUE,
                          !.m_syncBuffer.calls = Append(@, "play"),
                          !.m_playing = TRUE,
                          !.m_isPaused = FALSE,
                          !.m_totalSamplesSent = 0], TRUE)

open(s, format, bufferSeconds, accepted, t) ==
    IF s.m_selectedTargetIndex < 0 THEN Result(s, FALSE)
    ELSE open_wait(open_setup(s, format, bufferSeconds, accepted), t)

(***************************************************************************)
(* sendAudio(data, numSamples).  data is the caller's buffer; memcpy reads *)
(* dataSize bytes from it, and a byte read past its end is oob.            *)
(***************************************************************************)
dataSize(format, numSamples) ==
    IF format.isDSD
    THEN (numSamples * format.channels) \div 8
    ELSE numSamples * ((format.bitDepth \div 8) * format.channels)

memcpy(data, n, oob) ==
    [i \in 1..n |-> IF i <= Len(data) THEN data[i] ELSE oob]

\* lines 227-252: size the stream, copy, setStream, count
sendAudio_copy(s, data, numSamples, oob) ==
    Result([s EXCEPT !.m_syncBuffer.stream =
                         memcpy(data, dataSize(s.m_currentFormat, numSamples), oob),
                     !.m_syncBuffer.nStreams = @ + 1,
                     !.m_syncBuffer.calls = Append(@, "setStream"),
                     !.m_totalSamplesSent = @ + numSamples], TRUE)

\* sendAudio without the test of m_isPaused at line 223
sendAudio_ignoresPause(s, data, numSamples, oob) ==
    IF ~s.m_playing THEN Result(s, FALSE)
    ELSE sendAudio_copy(s, data, numSamples, oob)

sendAudio(s, data, numSamples, oob) ==
    IF ~s.m_playing THEN Result(s, FALSE)
    ELSE IF s.m_isPaused THEN Result(s, TRUE)
    ELSE sendAudio_copy(s, data, numSamples, oob)

(***************************************************************************)
(* disconnectFromTarget, changeFormat, pause, resume, close.               *)
(***************************************************************************)
disconnectFromTarget(s) ==
    [s EXCEPT !.m_syncBuffer.is_connect = FALSE,
              !.m_syncBuffer.opened = FALSE,
              !.m_syncBuffer.calls = @ \o <<"disconnect", "close">>]

\* lines 258-262 of changeFormat: stop() and disconnect when playing
changeFormat_stop(s) ==
    IF s.m_playing
    THEN disconnectFromTarget([s EXCEPT !.m_syncBuffer.playing = FALSE,
                                        !.m_syncBuffer.calls = Append(@, "stop")])
    ELSE s

changeFormat(s, newFormat, accepted, t) ==
    open(changeFormat_stop(s), newFormat, s.m_bufferSeconds, accepted, t)

\* pause() without the test of m_playing at line 269
pause_unchecked(s) ==
    IF s.m_isPaused THEN s
    ELSE [s EXCEPT !.m_syncBuffer.playing = FALSE,
                   !.m_syncBuffer.calls = Append(@, "stop"),
                   !.m_isPaused = TRUE]

pause(s) ==
    IF ~s.m_playing \/ s.m_isPaused THEN s
    ELSE [s EXCEPT !.m_syncBuffer.playing = FALSE,
                   !.m_syncBuffer.calls = Append(@, "stop"),
                   !.m_isPaused = TRUE]

resume(s) ==
    IF ~s.m_playing \/ ~s.m_isPaused THEN s
    ELSE [s EXCEPT !.m_syncBuffer.playing = TRUE,
                   !.m_syncBuffer.calls = Append(@, "play"),
                   !.m_isPaused = FALSE]

\* close() without line 305
close_keepsPaused(s) ==
    IF ~s.m_playing THEN s
    ELSE [disconnectFromTarget([s EXCEPT !.m_syncBuffer.playing = FALSE,
                                         !.m_syncBuffer.calls = Append(@, "stop")])
            EXCEPT !.m_playing = FALSE]

close(s) ==
    IF ~s.m_playing THEN s
    ELSE [disconnectFromTarget([s EXCEPT !.m_syncBuffer.playing = FALSE,
                                         !.m_syncBuffer.calls = Append(@, "stop")])
            EXCEPT !.m_playing = FALSE, !.m_isPaused = FALSE]

(***************************************************************************)
(* State.                                                                  *)
(*   sink       the DirettaOutputSimple instance                           *)
(*   call       the last call made into the sink: its name, the value it   *)
(*              returned (TRUE for a void method), whether it submitted a  *)
(*              stream to the target                                       *)
(*   connected  history: the most recent open()/changeFormat() returned    *)
(*              true and close() was not called since                      *)
(*   held       the bytes the caller holds for the last sendAudio call     *)
(* main() of the wrapper (globals.cpp):                                    *)
(*   pc         main's position                                            *)
(*   config     the parsed command line                                    *)
(*   running, squeezelite_pid   the two globals of the wrapper             *)
(*   bytes_read, buffer         the locals of the pump loop                *)
(*   pipe       the bytes written by the child and not yet read            *)
(*   child      the forked process: state, whether its exec failed,        *)
(*              whether the decoder ignores SIGTERM, a pending SIGTERM,    *)
(*              the number of bytes written                                *)
(*   exitCode   the exit code of the bridge, NotExited while it runs       *)
(*   failure    history: the startup step that failed                      *)
(*   events     history: open, send, close, term, reap in the order they   *)
(*              happened, a repeated event recorded once                   *)
(*   delivered  history: the bytes of every stream submitted by the pump   *)
(*   signals    the number of signals delivered to the bridge              *)
(* The in-process backend (output_diretta.c):                              *)
(*   diretta_state  running, thread (0 when there is none), current_format *)
(*   outputbuf      readp and writep, in frames from the start of the      *)
(*                  buffer                                                 *)
(*   tpc, frames, buf   the output thread: its position and its locals     *)
(*   chunk_format   history: current_format when the chunk in hand was     *)
(*                  sized                                                  *)
(*   cpc, new_format    the thread that calls output_*_diretta: its        *)
(*                  position and the local of output_rate_change_diretta   *)
(*   produced       the number of frames the decoder has written           *)
(*   flushes        the number of output_flush_diretta calls               *)
(*   rejected       history: a rate change has been rejected since the     *)
(*                  output was opened                                      *)
(***************************************************************************)
VARIABLES sink, call, connected, held,
          pc, config, running, squeezelite_pid, bytes_read, buffer,
          pipe, child, exitCode, failure, events, delivered, signals,
          diretta_state, outputbuf, tpc, frames, buf, chunk_format,
          cpc, new_format, produced, flushes, rejected

sinkVars == <<sink, call, connected, held>>
mainVars == <<pc, config, running, squeezelite_pid, bytes_read, buffer,
              pipe, child, exitCode, failure, events, delivered, signals>>
threadVars == <<diretta_state, outputbuf, tpc, frames, buf, chunk_format,
                cpc, new_format, produced, flushes, rejected>>
vars == <<sinkVars, mainVars, threadVars>>

Call(op, ret, before, after) ==
    [op |-> op, ret |-> ret,
     submitted |-> after.m_syncBuffer.nStreams # before.m_syncBuffer.nStreams
                   \/ after.m_totalSamplesSent > before.m_totalSamplesSent]

NotExited == -1

\* unsigned (32 bits) as its two 16-bit halves; Unsigned(i) is the conversion of
\* the int i to unsigned, SubOne(u) is u - 1 in unsigned arithmetic, ToInt(u) the
\* conversion of u to int
WordBase == 65536
Unsigned(i) == [hi |-> (i \div WordBase) % WordBase, lo |-> i % WordBase]
SubOne(u) ==
    IF u.lo > 0 THEN [u EXCEPT !.lo = @ - 1]
    ELSE [hi |-> (u.hi - 1) % WordBase, lo |-> WordBase - 1]
ToInt(u) ==
    IF u.hi >= WordBase \div 2 THEN (u.hi - WordBase) * WordBase + u.lo
    ELSE u.hi * WordBase + u.lo

Config ==
    [help |-> FALSE, list_targets |-> FALSE, diretta_target |-> Unsigned(1),
     sample_format |-> 24]
NoChild ==
    [state |-> "none", execFailed |-> FALSE, ignoresTerm |-> FALSE,
     term |-> FALSE, written |-> 0]

InitObject ==
    /\ sink = DirettaOutputSimple
    /\ call = [op |-> "DirettaOutputSimple", ret |-> TRUE, submitted |-> FALSE]
    /\ connected = FALSE
    /\ held = 0

InitMain ==
    /\ pc = "parse_args"
    /\ config = Config
    /\ running = TRUE
    /\ squeezelite_pid = 0
    /\ bytes_read = 0
    /\ buffer = <<>>
    /\ pipe = <<>>
    /\ child = NoChild
    /\ exitCode = NotExited
    /\ failure = "none"
    /\ events = <<>>
    /\ delivered = <<>>
    /\ signals = 0

InitThread ==
    /\ diretta_state = [running |-> FALSE, thread |-> 0,
                        current_format |-> AudioFormat(0, 0, 0, FALSE)]
    /\ outputbuf = [readp |-> 0, writep |-> 0]
    /\ tpc = "none"
    /\ frames = 0
    /\ buf = 0
    /\ chunk_format = AudioFormat(0, 0, 0, FALSE)
    /\ cpc = "init"
    /\ new_format = AudioFormat(0, 0, 0, FALSE)
    /\ produced = 0
    /\ flushes = 0
    /\ rejected = FALSE

Init == InitObject /\ InitMain /\ InitThread

(***************************************************************************)
(* The sink specification: one caller makes any sequence of calls.         *)
(***************************************************************************)
BufferSeconds == {2}
SampleCounts == {0, 2, 4}
OOBBytes == {0, 255}

\* the two sides of the timeout: the target reports connected at the last poll,
\* or just after it
BoundaryTimes == {timeoutMs, timeoutMs + 50}

\* what the target may answer to a requested format: the identifier requested,
\* or another one.  The answer changes only what open() prints; the wrapper and
\* the backend below are run against a target that accepts the format requested.
Accepted(format) ==
    {buildFormatID(format), {"FMT_PCM_SIGNED_16", "FMT_PCM_R48000", "FMT_CH_2_0"}}

\* a caller's buffer of numSamples samples as DirettaOutputSimple.h documents it:
\* int16_t per 16-bit sample, int32_t per 24-bit or 32-bit sample, uint8_t per
\* DSD sample
CallerData(format, numSamples) ==
    [i \in 1..(IF format.isDSD THEN numSamples
                ELSE IF format.bitDepth <= 16 THEN numSamples * 2
                ELSE numSamples * 4) |-> 0]

SelectTarget ==
    \E index \in -1..MaxTargets, count \in 0..MaxTargets :
        LET r == selectTarget(Enter(sink), index, count) IN
        /\ sink' = r.sink
        /\ call' = Call("selectTarget", r.ret, sink, r.sink)
        /\ UNCHANGED <<connected, held, mainVars, threadVars>>

Open ==
    \E format \in Formats, bufferSeconds \in BufferSeconds, t \in BoundaryTimes :
      \E accepted \in Accepted(format) :
        LET r == open(Enter(sink), format, bufferSeconds, accepted, t) IN
        /\ sink' = r.sink
        /\ call' = Call("open", r.ret, sink, r.sink)
        /\ connected' = r.ret
        /\ UNCHANGED <<held, mainVars, threadVars>>

SendAudio ==
    \E numSamples \in SampleCounts, oob \in OOBBytes :
        LET r == sendAudio(Enter(sink), CallerData(sink.m_currentFormat, numSamples),
                           numSamples, oob) IN
        /\ r.sink.m_totalSamplesSent <= MaxSamples
        /\ r.sink.m_syncBuffer.nStreams <= MaxStreams
        /\ sink' = r.sink
        /\ call' = Call("sendAudio", r.ret, sink, r.sink)
        /\ held' = Len(CallerData(sink.m_currentFormat, numSamples))
        /\ UNCHANGED <<connected, mainVars, threadVars>>

ChangeFormat ==
    \E newFormat \in Formats, t \in BoundaryTimes :
      \E accepted \in Accepted(newFormat) :
        LET r == changeFormat(Enter(sink), newFormat, accepted, t) IN
        /\ sink' = r.sink
        /\ call' = Call("changeFormat", r.ret, sink, r.sink)
        /\ connected' = r.ret
        /\ UNCHANGED <<held, mainVars, threadVars>>

Pause ==
    /\ sink' = pause(Enter(sink))
    /\ call' = Call("pause", TRUE, sink, sink')
    /\ UNCHANGED <<connected, held, mainVars, threadVars>>

Resume ==
    /\ sink' = resume(Enter(sink))
    /\ call' = Call("resume", TRUE, sink, sink')
    /\ UNCHANGED <<connected, held, mainVars, threadVars>>

Close ==
    /\ sink' = close(Enter(sink))
    /\ call' = Call("close", TRUE, sink, sink')
    /\ connected' = FALSE
    /\ UNCHANGED <<held, mainVars, threadVars>>

Next ==
    \/ SelectTarget \/ Open \/ SendAudio \/ ChangeFormat
    \/ Pause \/ Resume \/ Close

Spec == Init /\ [][Next]_vars

(***************************************************************************)
(* C1: audio is handed to the target only while the sink is Connected: a   *)
(* sendAudio call made when the most recent open()/changeFormat() returned *)
(* false, or after close(), returns false and submits nothing.             *)
(***************************************************************************)
C1_AudioOnlyWhenConnected ==
    (call.op = "sendAudio" /\ ~connected) => (~call.ret /\ ~call.submitted)

(***************************************************************************)
(* The wrapper: main() of globals.cpp, its signal handler and the child.   *)
(***************************************************************************)
SampleFormats == {16, 24, 32}
ChildPid == 4242

\* what std::stoi returns for the value of -t, and the unsigned target numbers
\* these give (line 143): the small numbers around the targets found, -1, -2, and
\* the two ends of int
TargetArgs == (0..(MaxTargets + 1)) \cup {-1, -2, 2147483647, -2147483647}
TargetInputs == {Unsigned(a) : a \in TargetArgs}

\* the conversion to the first target when the number given is 0
TargetIndex_clamped(target) ==
    IF target = Unsigned(0) THEN 0 ELSE ToInt(SubOne(target))

\* config.diretta_target - 1 in unsigned arithmetic, converted to the int
\* parameter of selectTarget: 0u - 1 is UINT_MAX, which converts to -1
TargetIndex(target) == ToInt(SubOne(target))

\* lines 303-307 and 321-325
MainFormat == AudioFormat(44100, config.sample_format, 2, FALSE)
bytes_per_frame == (MainFormat.bitDepth \div 8) * MainFormat.channels
buffer_size == CHUNK_SIZE * bytes_per_frame

Min(a, b) == IF a < b THEN a ELSE b

Record(e) == IF events # <<>> /\ events[Len(events)] = e THEN events ELSE Append(events, e)

\* kill(squeezelite_pid, SIGTERM): the signal is pending in a live child
kill(c) == IF c.state \in {"forked", "running"} THEN [c EXCEPT !.term = TRUE] ELSE c

\* return from main: the exit code, and ~DirettaOutputSimple runs close()
Return(code) ==
    /\ pc' = "exit"
    /\ exitCode' = code

\* parse_args, then lines 227-247; --help exits before the sink exists
ParseArgs ==
    /\ pc = "parse_args"
    /\ \E help \in BOOLEAN, list_targets \in BOOLEAN,
          diretta_target \in TargetInputs, sample_format \in SampleFormats :
          /\ config' = [help |-> help, list_targets |-> list_targets,
                        diretta_target |-> diretta_target,
                        sample_format |-> sample_format]
          /\ IF help THEN Return(0)
             ELSE /\ pc' = IF list_targets THEN "list" ELSE "selectTarget"
                  /\ UNCHANGED exitCode
    /\ UNCHANGED <<sinkVars, running, squeezelite_pid, bytes_read, buffer, pipe,
                   child, failure, events, delivered, signals,
                   threadVars>>

ListTargets ==
    /\ pc = "list"
    /\ Return(0)
    /\ sink' = close(Enter(sink))
    /\ UNCHANGED <<call, connected, held, config, running, squeezelite_pid, bytes_read,
                   buffer, pipe, child, failure, events, delivered, signals,
                   threadVars>>

\* lines 249-253
MainSelectTarget ==
    /\ pc = "selectTarget"
    /\ \E count \in 0..MaxTargets :
          LET r == selectTarget(Enter(sink), TargetIndex(config.diretta_target), count) IN
          /\ call' = Call("selectTarget", r.ret, sink, r.sink)
          /\ IF r.ret
             THEN /\ sink' = r.sink
                  /\ pc' = "pipe"
                  /\ UNCHANGED <<exitCode, failure>>
             ELSE /\ sink' = close(Enter(r.sink))
                  /\ failure' = "select"
                  /\ Return(1)
    /\ UNCHANGED <<connected, held, config, running, squeezelite_pid, bytes_read, buffer,
                   pipe, child, events, delivered, signals,
                   threadVars>>

\* lines 255-260
Pipe ==
    /\ pc = "pipe"
    /\ \E ok \in BOOLEAN :
          IF ok THEN /\ pc' = "fork"
                     /\ UNCHANGED <<sink, exitCode, failure>>
          ELSE /\ failure' = "pipe"
               /\ sink' = close(Enter(sink))
               /\ Return(1)
    /\ UNCHANGED <<call, connected, held, config, running, squeezelite_pid, bytes_read,
                   buffer, pipe, child, events, delivered, signals,
                   threadVars>>

\* lines 262-268 and 295: fork()
Fork ==
    /\ pc = "fork"
    /\ \E ok \in BOOLEAN :
          IF ok THEN /\ squeezelite_pid' = ChildPid
                     /\ child' = [NoChild EXCEPT !.state = "forked"]
                     /\ pc' = "open"
                     /\ UNCHANGED <<sink, exitCode, failure>>
          ELSE /\ squeezelite_pid' = -1
               /\ failure' = "fork"
               /\ sink' = close(Enter(sink))
               /\ Return(1)
               /\ UNCHANGED child
    /\ UNCHANGED <<call, connected, held, config, running, bytes_read, buffer, pipe,
                   events, delivered, signals,
                   threadVars>>

\* lines 309-325
MainOpen ==
    /\ pc = "open"
    /\ \E t \in ConnectTimes :
          LET r == open(Enter(sink), MainFormat, 2, buildFormatID(MainFormat), t) IN
          /\ call' = Call("open", r.ret, sink, r.sink)
          /\ connected' = r.ret
          /\ IF r.ret
             THEN /\ sink' = r.sink
                  /\ buffer' = [i \in 1..buffer_size |-> 0]
                  /\ events' = Record("open")
                  /\ pc' = "loop"
                  /\ UNCHANGED <<child, exitCode, failure>>
             ELSE /\ child' = kill(child)
                  /\ events' = Record("term")
                  /\ failure' = "open"
                  /\ sink' = close(Enter(r.sink))
                  /\ Return(1)
                  /\ UNCHANGED buffer
    /\ UNCHANGED <<held, config, running, squeezelite_pid, bytes_read, pipe,
                   delivered, signals,
                   threadVars>>

\* line 327: while (running)
Loop ==
    /\ pc = "loop"
    /\ pc' = IF running THEN "read" ELSE "cleanup"
    /\ UNCHANGED <<sinkVars, config, running, squeezelite_pid, bytes_read, buffer, pipe,
                   child, exitCode, failure, events, delivered, signals,
                   threadVars>>

\* line 328: the blocking read() returns what the pipe holds, at most buffer_size
\* bytes, or 0 once the pipe is empty and the child has closed its end by exiting
Read ==
    /\ pc = "read"
    /\ \/ /\ pipe # <<>>
          /\ LET n == Min(Len(pipe), buffer_size) IN
             /\ bytes_read' = n
             /\ buffer' = [i \in 1..Len(buffer) |-> IF i <= n THEN pipe[i] ELSE buffer[i]]
             /\ pipe' = SubSeq(pipe, n + 1, Len(pipe))
       \/ /\ pipe = <<>>
          /\ child.state \in {"exited", "reaped"}
          /\ bytes_read' = 0
          /\ UNCHANGED <<buffer, pipe>>
    /\ pc' = "forward"
    /\ UNCHANGED <<sinkVars, config, running, squeezelite_pid, child, exitCode, failure,
                   events, delivered, signals,
                   threadVars>>

\* lines 330-346.  memcpy past the end of buffer is undefined: the process is
\* killed by SIGSEGV, or the copy goes through with bytes that are not the pump's
Forward ==
    /\ pc = "forward"
    /\ IF bytes_read <= 0
       THEN /\ pc' = "cleanup"
            /\ UNCHANGED <<sinkVars, exitCode, events, delivered>>
       ELSE LET num_samples == (bytes_read \div bytes_per_frame) * MainFormat.channels
                copies == sink.m_playing /\ ~sink.m_isPaused
                overrun == copies /\ dataSize(sink.m_currentFormat, num_samples) > Len(buffer)
            IN
            \/ /\ overrun
               /\ Return(128 + 11)
               /\ UNCHANGED <<sinkVars, events, delivered>>
            \/ \E oob \in (IF overrun THEN OOBBytes ELSE {0}) :
                  LET r == sendAudio(Enter(sink), buffer, num_samples, oob) IN
                  /\ sink' = r.sink
                  /\ call' = Call("sendAudio", r.ret, sink, r.sink)
                  /\ held' = (bytes_read \div bytes_per_frame) * bytes_per_frame
                  /\ events' = Record("send")
                  /\ delivered' = IF copies THEN delivered \o r.sink.m_syncBuffer.stream
                                  ELSE delivered
                  /\ pc' = IF r.ret THEN "loop" ELSE "cleanup"
                  /\ UNCHANGED <<connected, exitCode>>
    /\ UNCHANGED <<config, running, squeezelite_pid, bytes_read, buffer, pipe, child,
                   failure, signals,
                   threadVars>>

\* lines 349-354
Cleanup ==
    /\ pc = "cleanup"
    /\ sink' = close(Enter(sink))
    /\ call' = Call("close", TRUE, sink, sink')
    /\ connected' = FALSE
    /\ events' = Record("close")
    /\ pc' = "kill"
    /\ UNCHANGED <<held, config, running, squeezelite_pid, bytes_read, buffer, pipe, child,
                   exitCode, failure, delivered, signals,
                   threadVars>>

\* lines 356-357
Kill ==
    /\ pc = "kill"
    /\ IF squeezelite_pid > 0
       THEN /\ child' = kill(child)
            /\ events' = Record("term")
            /\ pc' = "waitpid"
       ELSE /\ pc' = "stopped"
            /\ UNCHANGED <<child, events>>
    /\ UNCHANGED <<sinkVars, config, running, squeezelite_pid, bytes_read, buffer, pipe,
                   exitCode, failure, delivered, signals,
                   threadVars>>

\* line 358: waitpid(squeezelite_pid, nullptr, 0) returns once the child has exited
Waitpid ==
    /\ pc = "waitpid"
    /\ child.state = "exited"
    /\ child' = [child EXCEPT !.state = "reaped"]
    /\ events' = Record("reap")
    /\ pc' = "stopped"
    /\ UNCHANGED <<sinkVars, config, running, squeezelite_pid, bytes_read, buffer, pipe,
                   exitCode, failure, delivered, signals,
                   threadVars>>

\* lines 361-364
Stopped ==
    /\ pc = "stopped"
    /\ sink' = close(Enter(sink))
    /\ Return(0)
    /\ UNCHANGED <<call, connected, held, config, running, squeezelite_pid, bytes_read,
                   buffer, pipe, child, failure, events, delivered, signals,
                   threadVars>>

\* signal_handler, lines 48-55, once the handlers are installed (lines 228-229).
\* signal() installs a restarting handler: a read() in progress is resumed.
Signal ==
    /\ pc \notin {"parse_args", "exit"}
    /\ signals < MaxSignals
    /\ signals' = signals + 1
    /\ running' = FALSE
    /\ IF squeezelite_pid > 0
       THEN /\ child' = kill(child)
            /\ events' = Record("term")
       ELSE UNCHANGED <<child, events>>
    /\ UNCHANGED <<sinkVars, pc, config, squeezelite_pid, bytes_read, buffer, pipe,
                   exitCode, failure, delivered,
                   threadVars>>

(***************************************************************************)
(* The child process.  Between fork() and execvp() it runs the wrapper's   *)
(* code, signal_handler included; after a successful exec it is the        *)
(* decoder, which writes to the pipe, may exit, and dies of SIGTERM unless *)
(* it ignores the signal.                                                  *)
(***************************************************************************)
\* lines 48-55 in the child: squeezelite_pid is 0 there, nothing is killed
ChildHandler ==
    /\ child.state = "forked"
    /\ child.term
    /\ child' = [child EXCEPT !.term = FALSE]
    /\ UNCHANGED <<sinkVars, pc, config, running, squeezelite_pid, bytes_read, buffer,
                   pipe, exitCode, failure, events, delivered, signals,
                   threadVars>>

\* lines 270-292; a SIGTERM still pending at the exec is delivered to the decoder
ChildExec ==
    /\ child.state = "forked"
    /\ \E ok \in BOOLEAN, ignoresTerm \in BOOLEAN :
          child' = IF ok THEN [child EXCEPT !.state = "running", !.ignoresTerm = ignoresTerm]
                   ELSE [child EXCEPT !.state = "exited", !.execFailed = TRUE]
    /\ UNCHANGED <<sinkVars, pc, config, running, squeezelite_pid, bytes_read, buffer,
                   pipe, exitCode, failure, events, delivered, signals,
                   threadVars>>

\* close(pipefd[0]) at line 354, or the bridge has exited: no reader is left
ReadEndClosed == pc \in {"kill", "waitpid", "stopped", "exit"}

\* a write of the decoder to its stdout.  With no reader left the write raises
\* SIGPIPE, which ends the decoder; a decoder that ignores SIGPIPE gets EPIPE and
\* nothing changes.
ChildWrite ==
    /\ child.state = "running"
    /\ IF ReadEndClosed
       THEN /\ child' = [child EXCEPT !.state = "exited"]
            /\ pipe' = pipe
       ELSE /\ child.written < MaxStreamBytes
            /\ child' = [child EXCEPT !.written = @ + 1]
            /\ pipe' = Append(pipe, child.written + 1)
    /\ UNCHANGED <<sinkVars, pc, config, running, squeezelite_pid, bytes_read, buffer,
                   exitCode, failure, events, delivered, signals,
                   threadVars>>

\* the decoder exits by itself
ChildExit ==
    /\ child.state = "running"
    /\ child' = [child EXCEPT !.state = "exited"]
    /\ UNCHANGED <<sinkVars, pc, config, running, squeezelite_pid, bytes_read, buffer,
                   pipe, exitCode, failure, events, delivered, signals,
                   threadVars>>

ChildTerm ==
    /\ child.state = "running"
    /\ child.term
    /\ ~child.ignoresTerm
    /\ child' = [child EXCEPT !.state = "exited"]
    /\ UNCHANGED <<sinkVars, pc, config, running, squeezelite_pid, bytes_read, buffer,
                   pipe, exitCode, failure, events, delivered, signals,
                   threadVars>>

MainStep ==
    \/ ParseArgs \/ ListTargets \/ MainSelectTarget \/ Pipe \/ Fork \/ MainOpen
    \/ Loop \/ Read \/ Forward \/ Cleanup \/ Kill \/ Waitpid \/ Stopped

NextMain ==
    \/ ParseArgs \/ ListTargets \/ MainSelectTarget \/ Pipe \/ Fork \/ MainOpen
    \/ Loop \/ Read \/ Forward \/ Cleanup \/ Kill \/ Waitpid \/ Stopped
    \/ Signal
    \/ ChildHandler \/ ChildExec \/ ChildWrite \/ ChildExit \/ ChildTerm

SpecMain == Init /\ [][NextMain]_vars

\* the bridge runs whenever it can; a child that has exec'ed the decoder and does
\* not ignore SIGTERM dies of it
FairMain ==
    /\ Init /\ [][NextMain]_vars
    /\ WF_vars(MainStep)
    /\ WF_vars(ChildHandler) /\ WF_vars(ChildExec) /\ WF_vars(ChildTerm)

(***************************************************************************)
(* Claims about the wrapper.                                               *)
(***************************************************************************)
InEvents(e) == \E i \in 1..Len(events) : events[i] = e

\* C2: the byte count sendAudio copies out of the caller's buffer equals the
\* number of bytes the caller holds for that call (bytes_read rounded down to
\* whole frames in main).
C2_NoBufferOverrun ==
    (call.op = "sendAudio" /\ call.submitted) => Len(sink.m_syncBuffer.stream) = held

\* the bytes the child wrote carry their position in the stream, 1, 2, ...
IsPayload(b) == b \in 1..MaxStreamBytes
bytesRead == child.written - Len(pipe)

\* C3: at every iteration boundary of the pump the payload bytes delivered to
\* the sink are the bytes read from the pipe, each exactly once and in arrival
\* order, up to at least the last whole frame read: a remainder shorter than a
\* frame is kept for the next read, not dropped.
C3_NoLossNoReorder ==
    (pc = "loop" /\ InEvents("open")) =>
        LET payload == SelectSeq(delivered, IsPayload) IN
        /\ payload = [i \in 1..Len(payload) |-> i]
        /\ Len(payload) >= (bytesRead \div bytes_per_frame) * bytes_per_frame

\* C5: when the pipe reaches end of file with no termination requested, the
\* bridge terminates with a non-zero exit code.
C5_ChildExitIsFatal ==
    (pc = "exit" /\ InEvents("open") /\ signals = 0 /\ bytes_read = 0) => exitCode # 0

\* C6: the exit code is non-zero on every run in which the decoder could not be
\* started (pipe, fork or exec failure), target selection failed or the sink
\* open failed.
C6_ExitCodeOnFailure ==
    (pc = "exit" /\ (failure # "none" \/ child.execFailed)) => exitCode # 0

\* C7: once streaming has started the events occur in the order last send,
\* sink close, termination signal to the child, reap.
Rank(e) ==
    CASE e = "open" -> 0 [] e = "send" -> 1 [] e = "close" -> 2
      [] e = "term" -> 3 [] e = "reap" -> 4

C7_ShutdownOrder ==
    \A i, j \in 1..Len(events) :
        (i < j /\ \E k \in 1..i : events[k] = "open") => Rank(events[i]) <= Rank(events[j])

\* C8: after the cleanup has sent the termination signal the shutdown completes,
\* also when the child does not exit in response to SIGTERM.
C8_BoundedTermination == (pc = "waitpid") ~> (pc = "exit")

\* C9: once a signal has cleared the running flag the pump leaves its loop, also
\* when the child writes nothing more and keeps the pipe open.
C9_BoundedShutdownLatency ==
    (~running /\ pc \in {"loop", "read", "forward"}) ~> (pc \notin {"loop", "read", "forward"})

(***************************************************************************)
(* The in-process backend, output_diretta.c: the output thread, the thread *)
(* that calls output_*_diretta, and the decoder filling the output buffer. *)
(* A section under LOCK_O is one step; what runs outside the lock is       *)
(* interleaved with the other threads call by call.                        *)
(***************************************************************************)
Rates == {44100, 96000}
Channels == {2}
ChunkLimit == 8192

\* squeezelite's ring buffer: the frames between readp and writep
used(b) == (b.writep - b.readp) % BufFrames

\* lines 153-163
thread_bytes_per_frame(format) ==
    IF format.isDSD THEN format.channels
    ELSE format.channels * (IF format.bitDepth <= 16 THEN format.bitDepth \div 8 ELSE 4)

RateChangePCs == {"rc_setup", "rc_wait", "rc_end"}

\* output_init_diretta, lines 70-118
OutputInit ==
    /\ cpc = "init"
    /\ \E target \in TargetInputs, count \in 0..MaxTargets :
          LET r == selectTarget(Enter(sink), TargetIndex(target), count) IN
          /\ sink' = r.sink
          /\ call' = Call("selectTarget", r.ret, sink, r.sink)
          /\ cpc' = IF r.ret THEN "closed" ELSE "exit"
    /\ UNCHANGED <<connected, held, mainVars, diretta_state, outputbuf, tpc, frames, buf,
                   chunk_format, new_format, produced, flushes, rejected>>

\* output_open_diretta, lines 188-219
OutputOpen ==
    /\ cpc = "closed"
    /\ \E rate \in Rates, channels \in Channels, t \in BoundaryTimes :
          LET format == AudioFormat(rate, 24, channels, FALSE)
              r == open(Enter(sink), format, 2, buildFormatID(format), t) IN
          /\ sink' = r.sink
          /\ call' = Call("open", r.ret, sink, r.sink)
          /\ connected' = r.ret
          /\ IF r.ret
             THEN /\ diretta_state' = [running |-> TRUE, thread |-> 1,
                                       current_format |-> format]
                  /\ tpc' = "loop"
                  /\ cpc' = "idle"
             ELSE /\ diretta_state' = [diretta_state EXCEPT !.current_format = format]
                  /\ UNCHANGED <<tpc, cpc>>
    /\ rejected' = FALSE
    /\ UNCHANGED <<held, mainVars, outputbuf, frames, buf, chunk_format, new_format,
                   produced, flushes>>

\* output_start_diretta, lines 254-262
OutputStart ==
    /\ cpc \in {"closed", "idle"}
    /\ sink' = resume(Enter(sink))
    /\ call' = Call("resume", TRUE, sink, sink')
    /\ UNCHANGED <<connected, held, mainVars, threadVars>>

\* output_stop_diretta, lines 264-272
OutputStop ==
    /\ cpc \in {"closed", "idle"}
    /\ sink' = pause(Enter(sink))
    /\ call' = Call("pause", TRUE, sink, sink')
    /\ UNCHANGED <<connected, held, mainVars, threadVars>>

\* output_flush_diretta, lines 241-252
OutputFlush ==
    /\ cpc \in {"closed", "idle"}
    /\ flushes < MaxFlushes
    /\ flushes' = flushes + 1
    /\ outputbuf' = [readp |-> 0, writep |-> 0]
    /\ UNCHANGED <<sinkVars, mainVars, diretta_state, tpc, frames, buf, chunk_format,
                   cpc, new_format, produced, rejected>>

\* output_rate_change_diretta as output_open_diretta is written: the recorded
\* format is set before the sink has accepted it
RateChangeBegin_recordsFirst ==
    /\ cpc = "idle"
    /\ \E rate \in Rates :
          /\ new_format' = [diretta_state.current_format EXCEPT !.sampleRate = rate]
          /\ diretta_state' = [diretta_state EXCEPT !.current_format = new_format']
    /\ sink' = changeFormat_stop(Enter(sink))
    /\ cpc' = "rc_setup"
    /\ UNCHANGED <<call, connected, held, mainVars, outputbuf, tpc, frames,
                   buf, chunk_format, produced, flushes, rejected>>

\* output_rate_change_diretta, lines 284-292, into changeFormat, lines 255-262
RateChangeBegin ==
    /\ cpc = "idle"
    /\ \E rate \in Rates :
          new_format' = [diretta_state.current_format EXCEPT !.sampleRate = rate]
    /\ sink' = changeFormat_stop(Enter(sink))
    /\ cpc' = "rc_setup"
    /\ UNCHANGED <<call, connected, held, mainVars, diretta_state, outputbuf, tpc, frames,
                   buf, chunk_format, produced, flushes, rejected>>

\* open(newFormat, m_bufferSeconds) up to connect(), lines 114-191
RateChangeSetup ==
    /\ cpc = "rc_setup"
    /\ IF sink.m_selectedTargetIndex < 0
       THEN /\ cpc' = "idle"
            /\ call' = Call("changeFormat", FALSE, sink, sink)
            /\ connected' = FALSE
            /\ rejected' = TRUE
            /\ UNCHANGED sink
       ELSE /\ sink' = open_setup(sink, new_format, sink.m_bufferSeconds,
                                  buildFormatID(new_format))
            /\ cpc' = "rc_wait"
            /\ UNCHANGED <<call, connected, rejected>>
    /\ UNCHANGED <<held, mainVars, diretta_state, outputbuf, tpc, frames, buf,
                   chunk_format, new_format, produced, flushes>>

\* the wait for the connection and the result of changeFormat, lines 193-216
\* and 292-295
RateChangeWait ==
    /\ cpc = "rc_wait"
    /\ \E t \in BoundaryTimes :
          LET r == open_wait(sink, t) IN
          /\ sink' = r.sink
          /\ call' = Call("changeFormat", r.ret, sink, r.sink)
          /\ connected' = r.ret
          /\ cpc' = IF r.ret THEN "rc_end" ELSE "idle"
          /\ rejected' = (rejected \/ ~r.ret)
    /\ UNCHANGED <<held, mainVars, diretta_state, outputbuf, tpc, frames, buf,
                   chunk_format, new_format, produced, flushes>>

\* lines 297-300
RateChangeEnd ==
    /\ cpc = "rc_end"
    /\ diretta_state' = [diretta_state EXCEPT !.current_format = new_format]
    /\ cpc' = "idle"
    /\ UNCHANGED <<sinkVars, mainVars, outputbuf, tpc, frames, buf, chunk_format,
                   new_format, produced, flushes, rejected>>

\* output_close_diretta, lines 221-225
CloseBegin ==
    /\ cpc = "idle"
    /\ diretta_state' = [diretta_state EXCEPT !.running = FALSE]
    /\ cpc' = "close_join"
    /\ UNCHANGED <<sinkVars, mainVars, outputbuf, tpc, frames, buf, chunk_format,
                   new_format, produced, flushes, rejected>>

\* output_close_diretta going on to close() without pthread_join
CloseJoin_noJoin ==
    /\ cpc = "close_join"
    /\ diretta_state' = [diretta_state EXCEPT !.thread = 0]
    /\ cpc' = "close_sink"
    /\ UNCHANGED <<sinkVars, mainVars, outputbuf, tpc, frames, buf, chunk_format,
                   new_format, produced, flushes, rejected>>

\* lines 227-231: pthread_join returns once the output thread has returned
CloseJoin ==
    /\ cpc = "close_join"
    /\ diretta_state.thread # 0 => tpc = "stopped"
    /\ diretta_state' = [diretta_state EXCEPT !.thread = 0]
    /\ cpc' = "close_sink"
    /\ UNCHANGED <<sinkVars, mainVars, outputbuf, tpc, frames, buf, chunk_format,
                   new_format, produced, flushes, rejected>>

\* lines 233-238
CloseSink ==
    /\ cpc = "close_sink"
    /\ sink' = close(Enter(sink))
    /\ call' = Call("close", TRUE, sink, sink')
    /\ connected' = FALSE
    /\ cpc' = "closed"
    /\ UNCHANGED <<held, mainVars, diretta_state, outputbuf, tpc, frames, buf,
                   chunk_format, new_format, produced, flushes, rejected>>

\* the decoder writes a frame to the output buffer, under LOCK_O
Decode ==
    /\ cpc \notin {"init", "exit"}
    /\ produced < MaxFrames
    /\ used(outputbuf) < BufFrames - 1
    /\ produced' = produced + 1
    /\ outputbuf' = [outputbuf EXCEPT !.writep = (@ + 1) % BufFrames]
    /\ UNCHANGED <<sinkVars, mainVars, diretta_state, tpc, frames, buf, chunk_format,
                   cpc, new_format, flushes, rejected>>

\* output_thread_diretta, line 126
ThreadLoop ==
    /\ tpc = "loop"
    /\ tpc' = IF diretta_state.running THEN "lock" ELSE "stopped"
    /\ UNCHANGED <<sinkVars, mainVars, diretta_state, outputbuf, frames, buf,
                   chunk_format, cpc, new_format, produced, flushes, rejected>>

\* lines 128-167: the section under LOCK_O that takes the next chunk
ThreadTake ==
    /\ tpc = "lock"
    /\ IF used(outputbuf) = 0
       THEN /\ tpc' = "loop"
            /\ UNCHANGED <<frames, buf, chunk_format>>
       ELSE /\ frames' = Min(used(outputbuf), ChunkLimit)
            /\ buf' = outputbuf.readp
            /\ chunk_format' = diretta_state.current_format
            /\ tpc' = "send"
    /\ UNCHANGED <<sinkVars, mainVars, diretta_state, outputbuf, cpc, new_format,
                   produced, flushes, rejected>>

\* lines 169-173, into sendAudio, lines 219-225: the two early returns.  Past
\* them the thread is inside sendAudio with nothing locked.
ThreadSendEnter ==
    /\ tpc = "send"
    /\ IF ~sink.m_playing \/ sink.m_isPaused
       THEN /\ call' = Call("sendAudio", sink.m_playing, sink, sink)
            /\ held' = frames * thread_bytes_per_frame(chunk_format)
            /\ tpc' = "written"
       ELSE /\ tpc' = "in_send"
            /\ UNCHANGED <<call, held>>
    /\ sink' = Enter(sink)
    /\ UNCHANGED <<connected, mainVars, diretta_state, outputbuf, frames, buf,
                   chunk_format, cpc, new_format, produced, flushes, rejected>>

\* the rest of sendAudio, lines 227-252, and lines 173-175: the chunk holds
\* frames * bytes_per_frame bytes
ThreadSendCopy ==
    /\ tpc = "in_send"
    /\ LET data_size == frames * thread_bytes_per_frame(chunk_format)
           num_samples == frames * diretta_state.current_format.channels
           r == sendAudio_copy(sink, [i \in 1..data_size |-> 0], num_samples, 0) IN
       /\ sink' = r.sink
       /\ call' = Call("sendAudio", r.ret, sink, r.sink)
       /\ held' = data_size
    /\ tpc' = "written"
    /\ UNCHANGED <<connected, mainVars, diretta_state, outputbuf, frames, buf,
                   chunk_format, cpc, new_format, produced, flushes, rejected>>

ThreadSend == ThreadSendEnter \/ ThreadSendCopy

\* lines 177-181
ThreadWritten ==
    /\ tpc = "written"
    /\ outputbuf' = [outputbuf EXCEPT !.readp = (@ + frames) % BufFrames]
    /\ tpc' = "loop"
    /\ UNCHANGED <<sinkVars, mainVars, diretta_state, frames, buf, chunk_format, cpc,
                   new_format, produced, flushes, rejected>>

NextThread ==
    \/ OutputInit \/ OutputOpen \/ OutputStart \/ OutputStop \/ OutputFlush
    \/ RateChangeBegin \/ RateChangeSetup \/ RateChangeWait \/ RateChangeEnd
    \/ CloseBegin \/ CloseJoin \/ CloseSink
    \/ Decode
    \/ ThreadLoop \/ ThreadTake \/ ThreadSendEnter \/ ThreadSendCopy \/ ThreadWritten

SpecThread == Init /\ [][NextThread]_vars

\* a step of the output thread
ThreadStep == ThreadLoop \/ ThreadTake \/ ThreadSendEnter \/ ThreadSendCopy \/ ThreadWritten

\* C10: a format change is handled to completion before any later audio is
\* forwarded: no sendAudio call of the output thread executes between the start
\* and the end of output_rate_change_diretta, and no chunk sized under the
\* format of before a change is sent after that change has been committed.
C10_FormatChangeBeforeAudio ==
    [][ThreadSend => /\ cpc \notin RateChangePCs
                     /\ chunk_format = diretta_state.current_format]_vars

\* the steps of the calling thread that run inside a method of the sink
ControlSinkCall ==
    \/ OutputStart \/ OutputStop
    \/ RateChangeBegin \/ RateChangeSetup \/ RateChangeWait
    \/ CloseSink

\* C11: there are never two calls into the sink in progress at once: while the
\* output thread is inside sendAudio no step of pause(), resume(), changeFormat()
\* or close() runs, and the output thread does not run sendAudio while the
\* calling thread is inside changeFormat().
C11_NoConcurrentSinkCalls ==
    [][/\ ControlSinkCall => tpc # "in_send"
       /\ ThreadSend => cpc \notin {"rc_setup", "rc_wait"}]_vars

(***************************************************************************)
(* Format transitions.  The plan of CHANGELOG.md: the number of silence    *)
(* buffers sent in the old format and the delay in ms before the sink is   *)
(* reconfigured.                                                           *)
(***************************************************************************)
PcmToDsdSilence == 5
PcmToDsdDelayMs == 50
DsdToPcmSilence == 8
DsdToPcmDelayMs == 80

TransitionPlan(from, to) ==
    IF ~from.isDSD /\ to.isDSD
    THEN [silenceFrames |-> PcmToDsdSilence, settleDelayMs |-> PcmToDsdDelayMs]
    ELSE [silenceFrames |-> DsdToPcmSilence, settleDelayMs |-> DsdToPcmDelayMs]

\* the number of setStream calls in calls before the sink is reconfigured
SilenceSends(calls) ==
    Cardinality({i \in 1..Len(calls) :
                    /\ calls[i] = "setStream"
                    /\ \A j \in 1..i : calls[j] # "setSinkConfigure"})

\* C12: a change between PCM and DSD on a streaming sink sends exactly the
\* planned number of silence buffers (5 for PCM to DSD, 8 for DSD to PCM) before
\* the sink is reconfigured.
C12_SilenceBeforeReconfigure ==
    [][(/\ ChangeFormat
        /\ sink.m_playing /\ ~sink.m_isPaused
        /\ sink.m_currentFormat.isDSD # sink'.m_currentFormat.isDSD)
       => SilenceSends(sink'.m_syncBuffer.calls)
            = TransitionPlan(sink.m_currentFormat, sink'.m_currentFormat).silenceFrames]_vars

\* a rate change ends with changeFormat returning false
RateChangeRejected ==
    \/ RateChangeSetup /\ cpc' # "rc_wait"
    \/ RateChangeWait /\ cpc' # "rc_end"

\* the sink streams in format
Streaming(s, format) ==
    /\ s.m_playing /\ ~s.m_isPaused
    /\ s.m_syncBuffer.is_connect /\ s.m_syncBuffer.playing
    /\ s.m_currentFormat = format
    /\ s.m_syncBuffer.sinkConfigure = buildFormatID(format)

\* C13: a rejected rate change is not fatal: changeFormat has returned false,
\* the output thread keeps running, the caller is back where it takes requests,
\* and the recorded current format keeps its value (it changes only when a
\* change has succeeded, or at open); a rate change made after a rejected one,
\* once the target connects, leaves the sink streaming in the new format, which
\* is then the recorded one.
C13_RejectedChangeNotFatal ==
    [][/\ RateChangeRejected =>
            /\ ~call'.ret
            /\ cpc' = "idle"
            /\ diretta_state'.running /\ diretta_state'.thread # 0
            /\ tpc' # "stopped"
            /\ diretta_state'.current_format = diretta_state.current_format
       /\ diretta_state'.current_format # diretta_state.current_format =>
            (RateChangeEnd \/ OutputOpen)
       /\ (rejected /\ RateChangeWait /\ cpc' = "rc_end") =>
            Streaming(sink', new_format)
       /\ (rejected /\ RateChangeEnd) =>
            /\ diretta_state'.current_format = new_format
            /\ cpc' = "idle"]_vars

\* a rate change made after a rejected one has brought the sink back to streaming
C13_Witness ==
    /\ rejected
    /\ cpc = "rc_end"
    /\ Streaming(sink, new_format)
    /\ new_format # diretta_state.current_format

(***************************************************************************)
(* Claims about pause, resume, close, selectTarget, buildFormatID, open.   *)
(***************************************************************************)
\* what the sink has delivered to the target
Delivered(s) ==
    <<s.m_totalSamplesSent, s.m_syncBuffer.nStreams, s.m_syncBuffer.stream>>

\* C14: on a playing sink, between a pause() and the next resume() the delivered
\* count (m_totalSamplesSent, the setStream submissions) does not change: pause()
\* sets the flag and delivers nothing, every sendAudio call made while the flag
\* is set returns true and drops its data, and resume() delivers nothing of it.
C14_PausedDropsAudio ==
    [][/\ (Pause /\ sink.m_playing) =>
            (sink'.m_isPaused /\ Delivered(sink') = Delivered(sink))
       /\ (SendAudio /\ sink.m_isPaused) =>
            /\ call'.ret /\ ~call'.submitted
            /\ sink'.m_isPaused
            /\ sink'.m_syncBuffer.calls = <<>>
            /\ Delivered(sink') = Delivered(sink)
       /\ Resume =>
            /\ Delivered(sink') = Delivered(sink)
            /\ \A i \in 1..Len(sink'.m_syncBuffer.calls) :
                  sink'.m_syncBuffer.calls[i] # "setStream"]_vars

\* audio was delivered, the sink was paused, and a sendAudio call was dropped
C14_Witness ==
    /\ call.op = "sendAudio" /\ call.ret /\ ~call.submitted
    /\ sink.m_playing /\ sink.m_isPaused
    /\ sink.m_totalSamplesSent > 0
    /\ held > 0

\* the call changed nothing in the sink and gave the target no command
NoEffect(before, after) ==
    /\ after.m_syncBuffer.calls = <<>>
    /\ after = Enter(before)

\* C15: pause() on a sink that is already paused or not connected, and resume()
\* on a sink that is not paused or not connected, change no state and issue no
\* stop() or play(); so a second pause() or resume() in a row does nothing.
C15_PauseResumeIdempotent ==
    [][/\ (Pause /\ (sink.m_isPaused \/ ~connected)) => NoEffect(sink, sink')
       /\ (Resume /\ (~sink.m_isPaused \/ ~connected)) => NoEffect(sink, sink')
       /\ Pause => pause(Enter(sink')) = Enter(sink')
       /\ Resume => resume(Enter(sink')) = Enter(sink')]_vars

\* C16: close() is safe in every state and idempotent: it always leaves the sink
\* not playing and not paused; it gives the target stop and disconnect once when
\* the sink was playing and nothing otherwise; a second close() does nothing;
\* and only a successful open() makes the sink playing again, so close() issues
\* stop/disconnect at most once per successful open.
C16_CloseIdempotent ==
    [][/\ Close =>
            /\ ~sink'.m_playing /\ ~sink'.m_isPaused
            /\ IF sink.m_playing
               THEN sink'.m_syncBuffer.calls = <<"stop", "disconnect", "close">>
               ELSE NoEffect(sink, sink')
            /\ close(Enter(sink')) = Enter(sink')
       /\ (~sink.m_playing /\ sink'.m_playing) =>
            ((Open \/ ChangeFormat) /\ call'.ret)]_vars

\* close() has closed a sink that was paused or playing
C16_Witness ==
    /\ call.op = "close"
    /\ sink.m_syncBuffer.calls = <<"stop", "disconnect", "close">>
    /\ ~sink.m_playing /\ ~sink.m_syncBuffer.playing

\* C17: in every state of the sink, selectTarget(index) returns false whenever
\* discovery finds no target or index is negative or not below the discovered
\* count, and true otherwise; and every failing call leaves the sink, the
\* selected index and address included, exactly as it was.
C17_SelectTargetFailureKeepsSelection ==
    /\ [](\A index \in -1..MaxTargets, count \in 0..MaxTargets :
            LET r == selectTarget(sink, index, count) IN
            /\ r.ret = ~(count = 0 \/ index < 0 \/ index >= count)
            /\ ~r.ret => r.sink = sink)
    /\ [][(SelectTarget /\ ~call'.ret) =>
            /\ sink'.m_selectedTargetIndex = sink.m_selectedTargetIndex
            /\ sink'.m_targetAddress = sink.m_targetAddress
            /\ NoEffect(sink, sink')]_vars

\* a selectTarget call has failed on a sink that holds a valid selection
C17_Witness ==
    /\ call.op = "selectTarget" /\ ~call.ret
    /\ sink.m_selectedTargetIndex >= 0
    /\ sink.m_targetAddress = getSinkAddr(sink.m_selectedTargetIndex)

(***************************************************************************)
(* buildFormatID on its own: a format is chosen and the identifier built   *)
(* from it is given to the SDK buffer, as lines 154-156 of open() do.      *)
(***************************************************************************)
PcmRates == {44100, 48000, 88200, 96000, 176400, 192000, 352800, 384000, 705600, 768000}
DsdRates == {2822400, 5644800, 11289600, 22579200, 45158400}
BitDepths == {8, 16, 24, 32}

FormatInputs ==
    {AudioFormat(rate, depth, 2, isDSD) :
        rate \in PcmRates \cup DsdRates \cup {12345},
        depth \in BitDepths, isDSD \in BOOLEAN}

ChooseFormat ==
    /\ \E format \in FormatInputs : new_format' = format
    /\ sink' = [sink EXCEPT !.m_syncBuffer.sinkConfigure = {}]
    /\ UNCHANGED <<call, connected, held, mainVars, diretta_state, outputbuf, tpc, frames,
                   buf, chunk_format, cpc, produced, flushes, rejected>>

SetSinkConfigure ==
    /\ sink.m_syncBuffer.sinkConfigure = {}
    /\ new_format \in FormatInputs
    /\ sink' = [sink EXCEPT !.m_syncBuffer.sinkConfigure = buildFormatID(new_format)]
    /\ UNCHANGED <<call, connected, held, mainVars, threadVars>>

NextFormat == ChooseFormat \/ SetSinkConfigure

SpecFormat == Init /\ [][NextFormat]_vars

\* the combinations the claim lists as supported, and what tells two apart
Supported(format) ==
    IF format.isDSD THEN format.sampleRate \in DsdRates
    ELSE format.bitDepth \in {16, 24, 32} /\ format.sampleRate \in PcmRates

Combination(format) ==
    IF format.isDSD THEN <<"DSD", 0, format.sampleRate>>
    ELSE <<"PCM", format.bitDepth, format.sampleRate>>

\* C18: buildFormatID gives every supported combination an identifier that is
\* not FMT_INVALID and is the identifier of no other supported combination, and
\* gives every other combination FMT_INVALID.
C18_FormatIDDistinct ==
    sink.m_syncBuffer.sinkConfigure # {} =>
        LET id == sink.m_syncBuffer.sinkConfigure IN
        IF Supported(new_format)
        THEN /\ id # FMT_INVALID
             /\ id \cap FMT_INVALID = {}
             /\ \A other \in FormatInputs :
                   (Supported(other) /\ Combination(other) # Combination(new_format))
                       => buildFormatID(other) # id
        ELSE id = FMT_INVALID

\* the identifier of a supported DSD format has been built
C18_Witness ==
    /\ sink.m_syncBuffer.sinkConfigure # {}
    /\ new_format.isDSD /\ Supported(new_format)

\* the sleep of one poll of the wait, line 198
PollMs == 100

\* the target reports connected within the bounded wait
ConnectsInTime(t) == t # Never /\ t <= timeoutMs

\* C19: with a target selected, open() ends after at most 100 polls of 100 ms
\* and returns true if and only if the target reports connected within the
\* wait, whatever format the target accepted; and the sink becomes playing only
\* by an open() that returns true.
C19_OpenResult ==
    /\ [](sink.m_selectedTargetIndex >= 0 =>
            \A format \in Formats, t \in ConnectTimes :
               /\ waited[t] \div PollMs <= 100
               /\ \A accepted \in Accepted(format) :
                     LET r == open(Enter(sink), format, 2, accepted, t) IN
                     /\ r.ret = ConnectsInTime(t)
                     /\ r.sink.m_syncBuffer.sinkConfigure = accepted
                     /\ r.sink.m_playing = (r.ret \/ sink.m_playing))
    /\ [][(~sink.m_playing /\ sink'.m_playing) =>
            /\ Open \/ ChangeFormat
            /\ call'.ret
            /\ sink'.m_syncBuffer.is_connect]_vars

\* open() has returned true although the target accepted another format than
\* the one requested
C19_Witness ==
    /\ call.op = "open" /\ call.ret
    /\ sink.m_playing
    /\ sink.m_syncBuffer.sinkConfigure # buildFormatID(sink.m_currentFormat)

\* C20: when the first open of the sink times out the bridge tries once more: it
\* gives up (kills the child and exits) only on an open whose predecessor, the
\* call into the sink before it, was an open that failed too.
C20_OpenRetriedOnce ==
    [][(MainOpen /\ pc' = "exit") =>
          /\ call.op = "open" /\ ~call.ret
          /\ exitCode' # 0]_vars

(***************************************************************************)
(* The stream of the patched decoder (Squeezelite Setup): a 16-byte format *)
(* header, magic "SQFH", is written to stdout at the start of the stream.  *)
(* The bytes of the pipe carry their position, so the header is the bytes  *)
(* 1..FormatHeaderLen and the payload starts at FormatHeaderLen + 1.       *)
(***************************************************************************)
FormatHeaderLen == 16
IsHeader(b) == b \in 1..FormatHeaderLen

\* C21: none of the 16 bytes of the format header at the start of the stream is
\* delivered to the sink as audio, and the first byte of the pipe delivered is
\* the byte right after the header.
C21_HeaderNotDelivered ==
    LET fromPipe == SelectSeq(delivered, IsPayload) IN
    /\ \A i \in 1..Len(delivered) : ~IsHeader(delivered[i])
    /\ fromPipe # <<>> => fromPipe[1] = FormatHeaderLen + 1

(***************************************************************************)
(* The pump on a stream that is read in the largest pieces read() can      *)
(* return: what lines 327-346 deliver for the bytes next..last of the      *)
(* stream when every read() fills the buffer as far as the stream goes.    *)
(* oobs[i] is the byte the i-th copy finds past the end of the buffer.     *)
(***************************************************************************)
RECURSIVE PumpReads(_, _, _, _)
PumpReads(next, last, buf0, oobs) ==
    IF next > last THEN <<>>
    ELSE LET n == Min(last - next + 1, buffer_size)
             b == [i \in 1..buffer_size |-> IF i <= n THEN next + i - 1 ELSE buf0[i]]
             num_samples == (n \div bytes_per_frame) * MainFormat.channels
         IN memcpy(b, dataSize(MainFormat, num_samples), Head(oobs))
                \o PumpReads(next + n, last, b, Tail(oobs))

\* the reads the largest stream takes when no read is split
MaxReads == (MaxStreamBytes \div buffer_size) + 1

\* C22: the bytes delivered to the sink do not depend on how the stream is split
\* into read() results: at every iteration boundary of the pump they are the
\* bytes the pump delivers when it reads the same bytes of the stream unsplit.
\* (The code knows no format change, so that sequence is empty for every split.)
C22_SplitInvariance ==
    (pc = "loop" /\ InEvents("open")) =>
        \E oobs \in [1..MaxReads -> OOBBytes] :
            delivered = PumpReads(1, bytesRead, [i \in 1..buffer_size |-> 0], oobs)

(***************************************************************************)
(* The conversion of the target number.                                    *)
(***************************************************************************)
\* main() up to the selection of the target, lines 216-253
NextStartup == ParseArgs \/ ListTargets \/ MainSelectTarget

SpecStartup == Init /\ [][NextStartup]_vars

\* index is t - 1: it is not negative and has the bits of t - 1, t not being 0
IsTMinusOne(index, t) ==
    t # Unsigned(0) /\ index >= 0 /\ Unsigned(index) = SubOne(t)

\* 1 <= t <= 2^31: t - 1 is a value of int
InRange(t) ==
    t # Unsigned(0) /\ (t.hi < WordBase \div 2 \/ t = [hi |-> WordBase \div 2, lo |-> 0])

\* C23 as stated: for every t >= 1 the index passed to selectTarget is t - 1, and
\* for t = 0 the index is one that selectTarget rejects whatever was found, so
\* the run ends with the target-selection failure.
C23_IndexIsTMinusOne ==
    call.op = "selectTarget" =>
        LET t == config.diretta_target IN
        IF t # Unsigned(0)
        THEN IsTMinusOne(TargetIndex(t), t)
        ELSE /\ \A count \in 0..MaxTargets :
                   ~selectTarget(DirettaOutputSimple, TargetIndex(t), count).ret
             /\ ~call.ret /\ failure = "select" /\ pc = "exit" /\ exitCode # 0

\* C23: for every t from 1 to 2^31 the index passed to selectTarget is t - 1, and
\* a successful selection stores it; for t = 0 and for t above 2^31 the index
\* passed is negative, selectTarget rejects it whatever was found and changes
\* nothing, and the run ends with the target-selection failure.
C23_TargetConversion ==
    /\ \A t \in TargetInputs, count \in 0..MaxTargets :
          LET r == selectTarget(DirettaOutputSimple, TargetIndex(t), count) IN
          IF InRange(t)
          THEN /\ IsTMinusOne(TargetIndex(t), t)
               /\ r.ret => r.sink.m_selectedTargetIndex = TargetIndex(t)
          ELSE /\ TargetIndex(t) < 0
               /\ ~r.ret
               /\ r.sink = DirettaOutputSimple
    /\ (call.op = "selectTarget" /\ ~InRange(config.diretta_target)) =>
          /\ ~call.ret /\ failure = "select" /\ pc = "exit" /\ exitCode # 0
          /\ sink.m_selectedTargetIndex < 0
    /\ (call.op = "selectTarget" /\ call.ret) =>
          IsTMinusOne(sink.m_selectedTargetIndex, config.diretta_target)

\* the wrapper was started with -t 0 and has ended on the failed selection
C23_Witness ==
    /\ call.op = "selectTarget" /\ ~call.ret
    /\ config.diretta_target = Unsigned(0)
    /\ TargetIndex(config.diretta_target) = -1
    /\ pc = "exit" /\ failure = "select"

InSeq(x, seq) == \E i \in 1..Len(seq) : seq[i] = x

\* C24: a format change leaves the pause state as it was: changeFormat() or
\* open() on a paused sink leaves it paused and does not start playback, and
\* m_isPaused changes in no call but pause(), resume() and close().
C24_PauseOrthogonal ==
    [][/\ ((ChangeFormat \/ Open) /\ sink.m_isPaused) =>
              /\ sink'.m_isPaused
              /\ ~InSeq("play", sink'.m_syncBuffer.calls)
       /\ sink'.m_isPaused # sink.m_isPaused => (Pause \/ Resume \/ Close)]_vars

\* the output thread does not exist or has returned
ThreadGone == tpc \in {"none", "stopped"}

\* the steps the output thread is from the test of the running flag, line 126
ThreadRank(p) ==
    CASE p = "lock" -> 5 [] p = "send" -> 4 [] p = "in_send" -> 3
      [] p = "written" -> 2 [] p = "loop" -> 1 [] OTHER -> 0

\* C25: output_close_diretta clears the running flag, waits for the output
\* thread to end and only then closes the sink: close() is called with the flag
\* cleared and the thread gone, and no sendAudio step of the thread happens
\* while close() runs or after it until the output is opened again.  The thread
\* ends once the flag is cleared: while output_close_diretta waits the flag
\* stays cleared, the thread can always take its next step, each of its steps
\* brings it nearer to the test of the flag, on which it returns, and nothing
\* else moves it.
C25_CloseAfterThread ==
    /\ [][CloseSink => (~diretta_state.running /\ ThreadGone)]_vars
    /\ [](cpc \in {"close_sink", "closed"} => ThreadGone)
    /\ [][ThreadSend => cpc \notin {"close_sink", "closed"}]_vars
    /\ [](cpc = "close_join" =>
            /\ ~diretta_state.running
            /\ ThreadGone \/ ENABLED ThreadStep)
    /\ [][cpc = "close_join" =>
            IF ThreadStep THEN ThreadRank(tpc') < ThreadRank(tpc) ELSE tpc' = tpc]_vars

\* the sink has been closed after the output thread has sent audio and returned
C25_Witness ==
    /\ call.op = "close" /\ cpc = "closed"
    /\ tpc = "stopped"
    /\ sink.m_totalSamplesSent > 0

\* C26: the output buffer stays consistent under every interleaving of
\* output_flush_diretta with the output thread: the frames the thread marks as
\* consumed are frames the buffer holds at that moment, and the chunk the thread
\* sends is still the region at readp that it measured under the lock.
C26_FlushConsistent ==
    [][/\ ThreadWritten => frames <= used(outputbuf)
       /\ ThreadSend => (buf = outputbuf.readp /\ frames <= used(outputbuf))]_vars

\* the SDK buffer is given open() while it is open: it was open when the method
\* was entered and the method has not closed it before
OpensWhileOpen(before, calls) ==
    \E i \in 1..Len(calls) :
        /\ calls[i] = "open"
        /\ before.m_syncBuffer.opened
        /\ \A j \in 1..(i - 1) : calls[j] # "close"

\* C27: the SDK buffer is opened and closed in strict alternation: no call gives
\* it open() while it is open from an earlier open(), also after an open() that
\* timed out, and after close(), which the destructor runs before it deletes
\* the buffer, the buffer is not open.
C27_OpenCloseAlternate ==
    /\ [][~OpensWhileOpen(sink, sink'.m_syncBuffer.calls)]_vars
    /\ [](call.op = "close" => ~sink.m_syncBuffer.opened)

\* C28: open() never configures the target with FMT_INVALID: no call gives the
\* SDK buffer setSinkConfigure for a format whose identifier is FMT_INVALID, and
\* open() of such a format returns false without setSinkConfigure, connect or
\* play and leaves m_playing and m_currentFormat as they were.
C28_InvalidFormatRejected ==
    [][/\ InSeq("setSinkConfigure", sink'.m_syncBuffer.calls) =>
             buildFormatID(sink'.m_currentFormat) # FMT_INVALID
       /\ (Open /\ buildFormatID(sink'.m_currentFormat) = FMT_INVALID) =>
             (~call'.ret /\ NoEffect(sink, sink'))]_vars

\* C29: whenever neither output_open_diretta nor output_rate_change_diretta is
\* in progress, the format the backend sizes chunks by is the sink's own
\* current format, also after a rate change that failed.
C29_FormatsAgree ==
    cpc \in {"closed", "idle", "close_join", "close_sink"} =>
        diretta_state.current_format = sink.m_currentFormat

\* a step that calls kill(squeezelite_pid, SIGTERM): the handler and the cleanup
\* behind their test of the pid, and the failed open of line 312
KillsChildPid ==
    \/ (Signal \/ Kill) /\ squeezelite_pid > 0
    \/ MainOpen /\ ~call'.ret

\* C30: no termination signal is sent to the pid of the child after the child
\* has been reaped, wherever a signal reaches the bridge.
C30_NoKillAfterReap ==
    [][KillsChildPid => child.state # "reaped"]_vars

\* C31: in every reachable state of the sink paused implies playing, after any
\* sequence of selectTarget, open, sendAudio, changeFormat, pause, resume and
\* close calls, whatever the outcome of the connection attempts.
C31_PausedImpliesPlaying == sink.m_isPaused => sink.m_playing

\* a format change has timed out on a paused sink, which is still paused and
\* playing
C31_Witness ==
    /\ call.op = "changeFormat" /\ ~call.ret
    /\ sink.m_isPaused /\ sink.m_playing

====
